---- MODULE Spec2Model ----
(***************************************************************************)
(* Model of gitingest's query parser, src/gitingest/parse_query.py:        *)
(* parse_url, normalize_pattern, parse_patterns, override_ignore_patterns, *)
(* parse_path, parse_gitignore and the effective (second) parse_query.     *)
(*                                                                         *)
(* A Python str is a sequence of one-character strings, so that split,     *)
(* strip, startswith and the per-character tests are computed as the code  *)
(* computes them.  A Python list of str is a sequence of such sequences.   *)
(***************************************************************************)
EXTENDS Integers, Sequences, FiniteSets, TLC

VARIABLES
  DEFAULT_IGNORE_PATTERNS,  \* the module-level list (a mutable Python list)
  pc,                       \* "idle": no call running; "returned": a call has ended
  call,                     \* the operation called last and its arguments
  ret                       \* how it ended: a returned value or a raised ValueError

vars == <<DEFAULT_IGNORE_PATTERNS, pc, call, ret>>

-----------------------------------------------------------------------------
(* Bounds of the model *)

\* longest raw string handed to normalize_pattern / parse_patterns
MaxLen == 4
\* most path segments after the domain in a locator handed to parse_url
MaxSegments == 4
\* most tokens in a user ignore input / include input of parse_query
MaxIgnore == 2
MaxInclude == 2
\* most elements of a list handed to parse_patterns directly
MaxList == 2

-----------------------------------------------------------------------------
(* Python values *)

\* Python's None: a value no str equals (every element of a str is one character)
None == <<"None">>

\* one-character strings for which str.isalnum() is True: the ASCII letters and
\* digits and, because str.isalnum() is Unicode-aware, letters and digits
\* outside ASCII (here U+00E9 and U+00B2)
AsciiLetters ==
  {"a","b","c","d","e","f","g","h","i","j","k","l","m",
   "n","o","p","q","r","s","t","u","v","w","x","y","z",
   "A","B","C","D","E","F","G","H","I","J","K","L","M",
   "N","O","P","Q","R","S","T","U","V","W","X","Y","Z"}
AsciiDigits == {"0","1","2","3","4","5","6","7","8","9"}
NonAsciiAlnum == {"é", "²"}
isalnum(c) == c \in AsciiLetters \cup AsciiDigits \cup NonAsciiAlnum

\* the characters str.strip() removes (those of the model's alphabet)
Whitespace == {" ", "\t", "\n"}

\* os.sep on the POSIX platform the program runs on
os_sep == "/"

startswith(s, prefix) ==
  /\ Len(prefix) <= Len(s)
  /\ SubSeq(s, 1, Len(prefix)) = prefix

endswith(s, suffix) ==
  /\ Len(suffix) <= Len(s)
  /\ SubSeq(s, Len(s) - Len(suffix) + 1, Len(s)) = suffix

\* `sub in s` for strings
contains(s, sub) ==
  \E i \in 0..(Len(s) - Len(sub)) : SubSeq(s, i + 1, i + Len(sub)) = sub

\* s.lstrip(chars) / s.rstrip(chars) / s.strip()
RECURSIVE lstrip(_, _)
lstrip(s, chars) ==
  IF s # <<>> /\ Head(s) \in chars THEN lstrip(Tail(s), chars) ELSE s

RECURSIVE rstrip(_, _)
rstrip(s, chars) ==
  IF s # <<>> /\ s[Len(s)] \in chars
  THEN rstrip(SubSeq(s, 1, Len(s) - 1), chars) ELSE s

strip(s) == rstrip(lstrip(s, Whitespace), Whitespace)

\* s.split(sep) for a one-character separator: always at least one piece
RECURSIVE split(_, _)
split(s, sep) ==
  IF \A i \in 1..Len(s) : s[i] # sep THEN <<s>>
  ELSE LET i == CHOOSE k \in 1..Len(s) :
                  /\ s[k] = sep
                  /\ \A j \in 1..(k - 1) : s[j] # sep
       IN <<SubSeq(s, 1, i - 1)>> \o split(SubSeq(s, i + 1, Len(s)), sep)

\* sep.join(parts)
RECURSIVE join(_, _)
join(parts, sep) ==
  IF parts = <<>> THEN <<>>
  ELSE IF Len(parts) = 1 THEN parts[1]
  ELSE parts[1] \o sep \o join(Tail(parts), sep)

\* the two ways a call ends
Return(v) == [status |-> "ok", value |-> v]
Raise(e) == [status |-> e, value |-> None]

-----------------------------------------------------------------------------
(* Module constants *)

DEFAULT_PATTERNS ==
  << <<"*",".","p","y","c">>,
     <<"*",".","p","y","o">>,
     <<"*",".","p","y","d">>,
     <<"_","_","p","y","c","a","c","h","e","_","_">>,
     <<".","p","y","t","e","s","t","_","c","a","c","h","e">>,
     <<".","c","o","v","e","r","a","g","e">>,
     <<".","t","o","x">>,
     <<".","n","o","x">>,
     <<".","m","y","p","y","_","c","a","c","h","e">>,
     <<".","r","u","f","f","_","c","a","c","h","e">>,
     <<".","h","y","p","o","t","h","e","s","i","s">>,
     <<"p","o","e","t","r","y",".","l","o","c","k">>,
     <<"P","i","p","f","i","l","e",".","l","o","c","k">>,
     <<"n","o","d","e","_","m","o","d","u","l","e","s">>,
     <<"b","o","w","e","r","_","c","o","m","p","o","n","e","n","t","s">>,
     <<"p","a","c","k","a","g","e","-","l","o","c","k",".","j","s","o","n">>,
     <<"y","a","r","n",".","l","o","c","k">>,
     <<".","n","p","m">>,
     <<".","y","a","r","n">>,
     <<".","p","n","p","m","-","s","t","o","r","e">>,
     <<".","g","i","t">>,
     <<".","s","v","n">>,
     <<".","h","g">>,
     <<".","g","i","t","i","g","n","o","r","e">>,
     <<".","g","i","t","a","t","t","r","i","b","u","t","e","s">>,
     <<".","g","i","t","m","o","d","u","l","e","s">>,
     <<"*",".","s","v","g">>,
     <<"*",".","p","n","g">>,
     <<"*",".","j","p","g">>,
     <<"*",".","j","p","e","g">>,
     <<"*",".","g","i","f">>,
     <<"*",".","i","c","o">>,
     <<"*",".","p","d","f">>,
     <<"*",".","m","o","v">>,
     <<"*",".","m","p","4">>,
     <<"*",".","m","p","3">>,
     <<"*",".","w","a","v">>,
     <<"v","e","n","v">>,
     <<".","v","e","n","v">>,
     <<"e","n","v">>,
     <<".","e","n","v">>,
     <<"v","i","r","t","u","a","l","e","n","v">>,
     <<".","i","d","e","a">>,
     <<".","v","s","c","o","d","e">>,
     <<".","v","s">>,
     <<"*",".","s","w","p">>,
     <<"*",".","s","w","o">>,
     <<"*",".","s","w","n">>,
     <<".","s","e","t","t","i","n","g","s">>,
     <<".","p","r","o","j","e","c","t">>,
     <<".","c","l","a","s","s","p","a","t","h">>,
     <<"*",".","s","u","b","l","i","m","e","-","*">>,
     <<"*",".","l","o","g">>,
     <<"*",".","b","a","k">>,
     <<"*",".","s","w","p">>,
     <<"*",".","t","m","p">>,
     <<"*",".","t","e","m","p">>,
     <<".","c","a","c","h","e">>,
     <<".","s","a","s","s","-","c","a","c","h","e">>,
     <<".","e","s","l","i","n","t","c","a","c","h","e">>,
     <<".","D","S","_","S","t","o","r","e">>,
     <<"T","h","u","m","b","s",".","d","b">>,
     <<"d","e","s","k","t","o","p",".","i","n","i">>,
     <<"b","u","i","l","d">>,
     <<"d","i","s","t">>,
     <<"t","a","r","g","e","t">>,
     <<"o","u","t">>,
     <<"*",".","e","g","g","-","i","n","f","o">>,
     <<"*",".","e","g","g">>,
     <<"*",".","w","h","l">>,
     <<"*",".","s","o">>,
     <<"*",".","d","y","l","i","b">>,
     <<"*",".","d","l","l">>,
     <<"*",".","c","l","a","s","s">>,
     <<"s","i","t","e","-","p","a","c","k","a","g","e","s">>,
     <<".","d","o","c","u","s","a","u","r","u","s">>,
     <<".","n","e","x","t">>,
     <<".","n","u","x","t">>,
     <<"*",".","m","i","n",".","j","s">>,
     <<"*",".","m","i","n",".","c","s","s">>,
     <<"*",".","m","a","p">>,
     <<".","t","e","r","r","a","f","o","r","m">>,
     <<"*",".","t","f","s","t","a","t","e","*">>,
     <<"v","e","n","d","o","r","/">> >>

TMP_BASE_PATH == <<".",".","/","t","m","p">>

HTTPS == <<"h","t","t","p","s",":","/","/">>

\* the length of a full commit hash and the hexadecimal digits, line 90
CommitLen == 40
HexDigits ==
  {"0","1","2","3","4","5","6","7","8","9",
   "a","b","c","d","e","f","A","B","C","D","E","F"}

-----------------------------------------------------------------------------
(* parse_url, lines 52-94 *)

parse_url(url, uuid4) ==
  LET first == split(url, " ")[1]
      full == IF ~startswith(first, HTTPS) THEN HTTPS \o first ELSE first
      url_parts == split(full, "/")
      domain == url_parts[3]
      path_parts == SubSeq(url_parts, 4, Len(url_parts))
  IN IF Len(path_parts) < 2 THEN Raise("ValueError")
     ELSE
       LET user_name == path_parts[1]
           repo_name == path_parts[2]
           slug == user_name \o <<"-">> \o repo_name
           has_ref == Len(path_parts) > 3
           branch == IF has_ref THEN path_parts[4] ELSE None
           is_commit ==
             /\ has_ref
             /\ Len(branch) = CommitLen
             /\ \A i \in 1..Len(branch) : branch[i] \in HexDigits
       IN Return(
            [user_name |-> user_name,
             repo_name |-> repo_name,
             type |-> IF has_ref THEN path_parts[3] ELSE None,
             branch |-> branch,
             commit |-> IF is_commit THEN branch ELSE None,
             subpath |-> IF has_ref
                         THEN <<"/">> \o join(SubSeq(path_parts, 5, Len(path_parts)), <<"/">>)
                         ELSE <<"/">>,
             local_path |-> TMP_BASE_PATH \o <<"/">> \o uuid4 \o <<"/">> \o slug,
             url |-> HTTPS \o domain \o <<"/">> \o user_name \o <<"/">> \o repo_name,
             slug |-> slug,
             id |-> uuid4])

-----------------------------------------------------------------------------
(* normalize_pattern, lines 97-111 *)

\* as normalize_pattern, but dropping one leading separator only
normalize_pattern_one_sep(pattern) ==
  LET stripped == strip(pattern)
      relative == IF startswith(stripped, <<os_sep>>) THEN Tail(stripped) ELSE stripped
  IN IF endswith(relative, <<os_sep>>) THEN relative \o <<"*">> ELSE relative

normalize_pattern(pattern) ==
  LET stripped == strip(pattern)
      relative == lstrip(stripped, {os_sep})
  IN IF endswith(relative, <<os_sep>>) THEN relative \o <<"*">> ELSE relative

-----------------------------------------------------------------------------
(* parse_patterns, lines 114-132 *)

\* a pattern argument is None, a str or a list of str
NoneArg == [kind |-> "none", val |-> <<>>]
StrArg(s) == [kind |-> "str", val |-> s]
ListArg(l) == [kind |-> "list", val |-> l]

\* Python truthiness of such an argument: None, "" and [] are false
truthy(arg) == arg.kind # "none" /\ arg.val # <<>>

\* the characters line 128 allows besides the alphanumeric ones
PatternPunctuation == {"-", "_", ".", "/", "+", "*"}

\* as all_chars_allowed, but testing p instead of p.strip()
all_chars_allowed_unstripped(p) ==
  \A i \in 1..Len(p) : isalnum(p[i]) \/ p[i] \in PatternPunctuation

\* line 128: all(c.isalnum() or c in "-_./+*" for c in p.strip())

all_chars_allowed(p) ==
  LET token == strip(p)
  IN \A i \in 1..Len(token) : isalnum(token[i]) \/ token[i] \in PatternPunctuation

parse_patterns(pattern) ==
  LET joined == IF pattern.kind = "list" THEN join(pattern.val, <<",">>) ELSE pattern.val
      tokens == split(joined, ",")
  IN IF \E i \in 1..Len(tokens) : ~all_chars_allowed(tokens[i])
     THEN Raise("ValueError")
     ELSE Return([i \in 1..Len(tokens) |-> normalize_pattern(tokens[i])])

-----------------------------------------------------------------------------
(* override_ignore_patterns, lines 135-149 *)

\* `pattern in ignore_patterns`
in_list(x, l) == \E i \in 1..Len(l) : l[i] = x

\* list.remove(x): deletes the first element equal to x, and only that one
list_remove(l, x) ==
  LET i == CHOOSE k \in 1..Len(l) : l[k] = x /\ \A j \in 1..(k - 1) : l[j] # x
  IN SubSeq(l, 1, i - 1) \o SubSeq(l, i + 1, Len(l))

RECURSIVE override_ignore_patterns(_, _)
override_ignore_patterns(ignore_patterns, include_patterns) ==
  IF include_patterns = <<>> THEN ignore_patterns
  ELSE LET pattern == Head(include_patterns)
       IN override_ignore_patterns(
            IF in_list(pattern, ignore_patterns)
            THEN list_remove(ignore_patterns, pattern)
            ELSE ignore_patterns,
            Tail(include_patterns))

-----------------------------------------------------------------------------
(* parse_path, lines 153-169, with the os.path functions it calls (POSIX) *)

\* index of the last "/" of p, 0 when there is none: p.rfind("/") + 1
last_sep(p) ==
  IF \E i \in 1..Len(p) : p[i] = "/"
  THEN CHOOSE i \in 1..Len(p) : p[i] = "/" /\ \A j \in (i + 1)..Len(p) : p[j] # "/"
  ELSE 0

basename(p) == SubSeq(p, last_sep(p) + 1, Len(p))

dirname(p) ==
  LET head == SubSeq(p, 1, last_sep(p))
  IN IF head # <<>> /\ \E i \in 1..Len(head) : head[i] # "/"
     THEN rstrip(head, {"/"}) ELSE head

\* the component loop of posixpath.normpath
RECURSIVE norm_comps(_, _, _)
norm_comps(comps, new_comps, rooted) ==
  IF comps = <<>> THEN new_comps
  ELSE LET comp == Head(comps)
       IN IF comp = <<>> \/ comp = <<".">> THEN norm_comps(Tail(comps), new_comps, rooted)
          ELSE IF \/ comp # <<".", ".">>
                  \/ (~rooted /\ new_comps = <<>>)
                  \/ (new_comps # <<>> /\ new_comps[Len(new_comps)] = <<".", ".">>)
          THEN norm_comps(Tail(comps), Append(new_comps, comp), rooted)
          ELSE IF new_comps # <<>>
          THEN norm_comps(Tail(comps), SubSeq(new_comps, 1, Len(new_comps) - 1), rooted)
          ELSE norm_comps(Tail(comps), new_comps, rooted)

normpath(path) ==
  IF path = <<>> THEN <<".">>
  ELSE LET initial_slashes ==
             IF ~startswith(path, <<"/">>) THEN 0
             ELSE IF startswith(path, <<"/", "/">>) /\ ~startswith(path, <<"/", "/", "/">>)
             THEN 2 ELSE 1
           body == join(norm_comps(split(path, "/"), <<>>, initial_slashes > 0), <<"/">>)
           out == [i \in 1..initial_slashes |-> "/"] \o body
       IN IF out = <<>> THEN <<".">> ELSE out

\* os.path.join(a, b)
path_join(a, b) ==
  IF startswith(b, <<"/">>) THEN b
  ELSE IF a = <<>> \/ endswith(a, <<"/">>) THEN a \o b
  ELSE a \o <<"/">> \o b

abspath(path, cwd) ==
  normpath(IF startswith(path, <<"/">>) THEN path ELSE path_join(cwd, path))

parse_path(path, cwd, uuid4) ==
  Return(
    [local_path |-> abspath(path, cwd),
     slug |-> basename(dirname(path)) \o <<"/">> \o basename(path),
     subpath |-> <<"/">>,
     id |-> uuid4,
     url |-> None])

-----------------------------------------------------------------------------
(* parse_gitignore, lines 199-219 *)

\* What the file system holds at the resolved local_path when the call runs: the
\* lines of its .gitignore (NoFile when there is none) and the names beside it
\* that are directories.
NoFile == <<"NoFile">>

\* os.path.isdir(os.path.join(os.path.dirname(gitignore_path), line))
isdir(fs, line) == rstrip(line, {"/"}) \in fs.dirs

RECURSIVE gitignore_lines(_, _)
gitignore_lines(fs, lines) ==
  IF lines = <<>> THEN <<>>
  ELSE LET line == strip(Head(lines))
           rest == gitignore_lines(fs, Tail(lines))
       IN IF line # <<>> /\ ~startswith(line, <<"#">>)
          THEN <<IF isdir(fs, line) THEN rstrip(line, {"/"}) \o <<"/">> ELSE line>> \o rest
          ELSE rest

parse_gitignore(fs) ==
  IF fs.gitignore # NoFile THEN gitignore_lines(fs, fs.gitignore) ELSE <<>>

-----------------------------------------------------------------------------
(* parse_query, lines 223-282: the second definition, which replaces the first
   (lines 172-196) when the module is loaded *)

\* as if line 247 bound final_ignore_patterns to the module-level list itself
copy_shares_list == FALSE

\* line 247: DEFAULT_IGNORE_PATTERNS.copy() is a new list, so the in-place
\* extend and remove of lines 255, 261 and 148 leave the module-level list alone
copy_is_new_list == TRUE

\* the module-level list after in-place changes have made `working` of the list
\* that final_ignore_patterns names
defaults_after(defaults, working) ==
  IF copy_is_new_list THEN defaults ELSE working

\* as list_extend, but putting the new items first
list_extend_front(l, items) == items \o l

\* list.extend, lines 255 and 261
list_extend(l, items) == l \o items

\* The result: how the call ends and the module-level list it leaves behind.
parse_query(defaults, source, max_file_size, from_web, include_patterns, ignore_patterns, fs, cwd, uuid4) ==
  LET located == IF from_web THEN parse_url(source, uuid4)
                 ELSE parse_path(source, cwd, uuid4)
      query == located.value
      with_gitignore ==
        IF fs.gitignore # NoFile
        THEN list_extend(defaults, parse_gitignore(fs)) ELSE defaults
      ignored == parse_patterns(ignore_patterns)
      with_ignore ==
        IF truthy(ignore_patterns)
        THEN list_extend(with_gitignore, ignored.value) ELSE with_gitignore
      included == parse_patterns(include_patterns)
      final_ignore_patterns ==
        IF truthy(include_patterns)
        THEN override_ignore_patterns(with_ignore, included.value) ELSE with_ignore
      final_include_patterns ==
        IF truthy(include_patterns) THEN included.value
        ELSE IF include_patterns.kind = "none" THEN None ELSE include_patterns.val
  IN IF located.status # "ok"
     THEN [ret |-> located, defaults |-> defaults]
     ELSE IF truthy(ignore_patterns) /\ ignored.status # "ok"
     THEN [ret |-> ignored, defaults |-> defaults_after(defaults, with_gitignore)]
     ELSE IF truthy(include_patterns) /\ included.status # "ok"
     THEN [ret |-> included, defaults |-> defaults_after(defaults, with_ignore)]
     ELSE [ret |-> Return(
                     [f \in DOMAIN query \cup
                            {"max_file_size", "ignore_patterns", "include_patterns"} |->
                        IF f = "max_file_size" THEN max_file_size
                        ELSE IF f = "ignore_patterns" THEN final_ignore_patterns
                        ELSE IF f = "include_patterns" THEN final_include_patterns
                        ELSE query[f]]),
           defaults |-> defaults_after(defaults, final_ignore_patterns)]

-----------------------------------------------------------------------------
(* Inputs *)

\* values uuid.uuid4() may produce
UUIDs == {<<"u","1">>, <<"u","2">>}

\* locators: an optional scheme, a domain, path segments and optional trailing text
Schemes == {<<>>, HTTPS, <<"h","t","t","p",":","/","/">>}
Domain == <<"g","i","t","h","u","b",".","c","o","m">>
Hex40 == <<"0","1","2","3","4","5","6","7","8","9","a","b","c","d","e","f","A","B","C","D","E","F","0","1","2","3","4","5","6","7","8","9","a","b","c","d","e","f","A","B">>
Segments ==
  {<<>>, <<"f","o","o">>, <<"t","r","e","e">>, Hex40,
   SubSeq(Hex40, 1, CommitLen - 1), Hex40 \o <<"0">>,
   SubSeq(Hex40, 1, CommitLen - 1) \o <<"g">>}
Trailing == {<<>>, <<" ","x">>}

SeqsUpTo(S, n) == UNION {[1..k -> S] : k \in 0..n}

RECURSIVE PathOf(_)
PathOf(segs) ==
  IF segs = <<>> THEN <<>> ELSE <<"/">> \o Head(segs) \o PathOf(Tail(segs))

Locator(scheme, segs, rest) == scheme \o Domain \o PathOf(segs) \o rest

Locators ==
  {Locator(scheme, segs, rest) :
     scheme \in Schemes, segs \in SeqsUpTo(Segments, MaxSegments), rest \in Trailing}

\* raw strings handed to normalize_pattern and parse_patterns: every string of at
\* most MaxLen characters over an alphabet with a letter, the separator, a
\* wildcard, whitespace, the comma, a non-ASCII letter and a forbidden character
Alphabet == {"a", "/", "*", " ", ",", "é", "!"}
RawStrings == SeqsUpTo(Alphabet, MaxLen)

\* raw tokens of list arguments
ListTokens == {<<"*",".","s","w","p">>, <<" ","/","b","u","i","l","d">>, <<"a","p","p",".","l","o","g",",","a","+","b">>, <<"a"," ","b">>, <<"d","o","c","s","/"," ">>}
RawLists == SeqsUpTo(ListTokens, MaxList)

PatternArgs == {StrArg(s) : s \in RawStrings} \cup {ListArg(l) : l \in RawLists}

\* arguments and environment of parse_query
Sources == {<<"h","t","t","p","s",":","/","/","g","i","t","h","u","b",".","c","o","m","/","f","o","o","/","b","a","r">>, <<"g","i","t","h","u","b",".","c","o","m","/","f","o","o">>, <<"/","h","o","m","e","/","u","/","p","r","o","j">>, <<".",".","/","p","r","o","j","/">>}
Cwd == <<"/","h","o","m","e","/","u","/","w","o","r","k">>
MaxFileSizes == {1048576}

Gitignore1 == << <<"#"," ","l","o","g","s">>, <<>>, <<" ","*",".","s","w","p"," ">>, <<"l","o","g","s">>, <<"d","i","s","t">> >>
FileSystems ==
  {[gitignore |-> NoFile, dirs |-> {}],
   [gitignore |-> <<>>, dirs |-> {}],
   [gitignore |-> Gitignore1, dirs |-> {}],
   [gitignore |-> Gitignore1, dirs |-> {<<"l","o","g","s">>}]}
\* those parse_query runs against: no .gitignore, and one with a comment, a
\* blank line, a default pattern, a directory and a plain file name
QueryFileSystems ==
  {[gitignore |-> NoFile, dirs |-> {}],
   [gitignore |-> Gitignore1, dirs |-> {<<"l","o","g","s">>}]}

\* raw tokens: one that normalizes to a default pattern, one that is no default
\* pattern, one with a forbidden character
QueryTokens == {<<" ","/","*",".","s","w","p">>, <<"a","p","p",".","l","o","g">>, <<"a"," ","b">>}
QueryArgs(n) ==
  {NoneArg} \cup {StrArg(join(l, <<",">>)) : l \in SeqsUpTo(QueryTokens, n)}
            \cup {ListArg(l) : l \in SeqsUpTo(QueryTokens, n)}

-----------------------------------------------------------------------------
(* State machine *)

NoCall == [op |-> "none"]

Init ==
  /\ DEFAULT_IGNORE_PATTERNS = DEFAULT_PATTERNS
  /\ pc = "idle"
  /\ call = NoCall
  /\ ret = Return(None)

\* a direct call of parse_url(url)
ParseUrl ==
  /\ pc = "idle"
  /\ \E url \in Locators, uuid4 \in UUIDs :
       /\ call' = [op |-> "parse_url", url |-> url]
       /\ ret' = parse_url(url, uuid4)
  /\ pc' = "returned"
  /\ UNCHANGED DEFAULT_IGNORE_PATTERNS

\* a direct call of normalize_pattern(pattern)
NormalizePattern ==
  /\ pc = "idle"
  /\ \E pattern \in RawStrings :
       /\ call' = [op |-> "normalize_pattern", pattern |-> pattern]
       /\ ret' = Return(normalize_pattern(pattern))
  /\ pc' = "returned"
  /\ UNCHANGED DEFAULT_IGNORE_PATTERNS

\* a direct call of parse_patterns(pattern)
ParsePatterns ==
  /\ pc = "idle"
  /\ \E pattern \in PatternArgs :
       /\ call' = [op |-> "parse_patterns", pattern |-> pattern]
       /\ ret' = parse_patterns(pattern)
  /\ pc' = "returned"
  /\ UNCHANGED DEFAULT_IGNORE_PATTERNS

\* a call of parse_query(source, max_file_size, from_web, include_patterns,
\* ignore_patterns); fs and uuid4 are what the call reads from its environment
ParseQuery ==
  /\ pc = "idle"
  /\ \E source \in Sources, max_file_size \in MaxFileSizes, from_web \in BOOLEAN,
        include_patterns \in QueryArgs(MaxInclude), ignore_patterns \in QueryArgs(MaxIgnore),
        fs \in QueryFileSystems, uuid4 \in UUIDs :
       LET result == parse_query(DEFAULT_IGNORE_PATTERNS, source, max_file_size, from_web,
                                 include_patterns, ignore_patterns, fs, Cwd, uuid4)
       IN /\ call' = [op |-> "parse_query", source |-> source,
                      max_file_size |-> max_file_size, from_web |-> from_web,
                      include_patterns |-> include_patterns,
                      ignore_patterns |-> ignore_patterns, fs |-> fs, uuid4 |-> uuid4]
          /\ ret' = result.ret
          /\ DEFAULT_IGNORE_PATTERNS' = result.defaults
  /\ pc' = "returned"

\* a direct call of parse_path(path)
ParsePath ==
  /\ pc = "idle"
  /\ \E path \in Sources, uuid4 \in UUIDs :
       /\ call' = [op |-> "parse_path", path |-> path]
       /\ ret' = parse_path(path, Cwd, uuid4)
  /\ pc' = "returned"
  /\ UNCHANGED DEFAULT_IGNORE_PATTERNS

\* a direct call of parse_gitignore(gitignore_path), fs being what is on disk there
ParseGitignore ==
  /\ pc = "idle"
  /\ \E fs \in FileSystems :
       /\ call' = [op |-> "parse_gitignore", fs |-> fs]
       /\ ret' = Return(parse_gitignore(fs))
  /\ pc' = "returned"
  /\ UNCHANGED DEFAULT_IGNORE_PATTERNS

\* the caller is done with the result (or has seen the exception) and may call again
Done ==
  /\ pc = "returned"
  /\ pc' = "idle"
  /\ call' = NoCall
  /\ ret' = Return(None)
  /\ UNCHANGED DEFAULT_IGNORE_PATTERNS

\* the whole module
Next ==
  \/ ParseUrl
  \/ NormalizePattern
  \/ ParsePatterns
  \/ ParsePath
  \/ ParseGitignore
  \/ ParseQuery
  \/ Done
Spec == Init /\ [][Next]_vars

\* The same machine restricted to the calls of one part of the module, for the
\* properties of that part.
NextUrl == ParseUrl \/ Done
SpecUrl == Init /\ [][NextUrl]_vars

NextQuery == ParseQuery \/ ParsePath \/ ParseGitignore \/ Done
SpecQuery == Init /\ [][NextQuery]_vars

NextPatterns == NormalizePattern \/ ParsePatterns \/ Done
SpecPatterns == Init /\ [][NextPatterns]_vars

-----------------------------------------------------------------------------
(* Vocabulary of the properties *)

Returned(op) == pc = "returned" /\ call.op = op
Ok(op) == Returned(op) /\ ret.status = "ok"

\* A locator as the properties speak of it: an optional scheme ending in "://",
\* a domain, and the path segments after it, each introduced by "/"; text after
\* the first space is not part of the locator.
SchemeMark == <<":", "/", "/">>

RECURSIVE AfterScheme(_)
AfterScheme(s) ==
  IF ~contains(s, SchemeMark) THEN s
  ELSE IF startswith(s, SchemeMark) THEN SubSeq(s, Len(SchemeMark) + 1, Len(s))
  ELSE AfterScheme(Tail(s))

LocatorText(url) == split(url, " ")[1]
LocatorDomain(url) == split(AfterScheme(LocatorText(url)), "/")[1]
LocatorSegments(url) == Tail(split(AfterScheme(LocatorText(url)), "/"))
ForeignScheme(url) ==
  contains(LocatorText(url), SchemeMark) /\ ~startswith(LocatorText(url), HTTPS)

IsCommitHash(s) == Len(s) = CommitLen /\ \A i \in 1..Len(s) : s[i] \in HexDigits

\* the comma-separated tokens of a pattern argument
RECURSIVE TokensOfList(_)
TokensOfList(l) ==
  IF l = <<>> THEN <<>> ELSE split(Head(l), ",") \o TokensOfList(Tail(l))

ArgTokens(arg) ==
  IF arg.kind = "list" /\ arg.val # <<>> THEN TokensOfList(arg.val) ELSE split(arg.val, ",")

\* the patterns a user argument contributes: none when the argument is absent or empty
UserPatterns(arg) ==
  IF truthy(arg) THEN [i \in 1..Len(ArgTokens(arg)) |-> normalize_pattern(ArgTokens(arg)[i])]
  ELSE <<>>

\* everything a call of parse_query accumulates before the include override
Accumulated ==
  DEFAULT_PATTERNS \o parse_gitignore(call.fs) \o UserPatterns(call.ignore_patterns)

AsciiPatternChars == AsciiLetters \cup AsciiDigits \cup {"-", "_", ".", "/", "+", "*"}
PatternChars ==
  AsciiLetters \cup AsciiDigits \cup NonAsciiAlnum \cup {"-", "_", ".", "/", "+", "*"}

\* some token of the argument, trimmed, has a character outside `allowed`
SomeTokenOutside(arg, allowed) ==
  \E i \in 1..Len(ArgTokens(arg)) :
    \E k \in 1..Len(strip(ArgTokens(arg)[i])) : strip(ArgTokens(arg)[i])[k] \notin allowed

-----------------------------------------------------------------------------
(* Properties *)

\* C1: when parse_query returns and include patterns were supplied, no element of
\* the returned ignore_patterns equals an element of the returned include_patterns.
C1_NoIncludeLeftInIgnore ==
  (Ok("parse_query") /\ truthy(call.include_patterns)) =>
    \A i \in 1..Len(ret.value.ignore_patterns) :
      \A j \in 1..Len(ret.value.include_patterns) :
        ret.value.ignore_patterns[i] # ret.value.include_patterns[j]

LooksRemote(source) == startswith(source, HTTPS) \/ contains(source, Domain)

\* C2: without the remote flag, a source that begins with "https://" or contains
\* "github.com" is resolved by the URL parser (user_name, repo_name and url set),
\* and every other source is resolved as a local path.
C2_DispatchBySourceText ==
  (Returned("parse_query") /\ ~call.from_web) =>
    IF LooksRemote(call.source)
    THEN LET located == parse_url(call.source, call.uuid4)
         IN IF located.status = "ok"
            THEN ret.status = "ok" =>
                   /\ "user_name" \in DOMAIN ret.value
                   /\ ret.value.user_name = located.value.user_name
                   /\ ret.value.repo_name = located.value.repo_name
                   /\ ret.value.url = located.value.url
            ELSE ret.status = "ValueError"
    ELSE ret.status = "ok" =>
           /\ "user_name" \notin DOMAIN ret.value
           /\ ret.value.url = None
           /\ ret.value.local_path = abspath(call.source, Cwd)

NoIncludeMatches ==
  \/ ~truthy(call.include_patterns)
  \/ \A j \in 1..Len(ret.value.include_patterns) :
       ~in_list(ret.value.include_patterns[j], Accumulated)

\* C3: when no include pattern is supplied, or none equals an accumulated ignore
\* pattern, the returned ignore_patterns is the defaults, then the patterns of
\* .gitignore in file order, then the normalized user ignore patterns in input
\* order: nothing reordered, merged, added or dropped.
C3_IgnoreIsPlainConcatenation ==
  (Ok("parse_query") /\ NoIncludeMatches) => ret.value.ignore_patterns = Accumulated

C3_Witness ==
  /\ Ok("parse_query")
  /\ call.fs.gitignore # NoFile
  /\ Len(UserPatterns(call.ignore_patterns)) = 2
  /\ UserPatterns(call.ignore_patterns)[1] = UserPatterns(call.ignore_patterns)[2]
  /\ truthy(call.include_patterns)
  /\ NoIncludeMatches
  /\ Len(ret.value.ignore_patterns) = Len(DEFAULT_PATTERNS) + 3 + 2

\* C4: for a locator of a domain and at least 2 path segments, with no scheme,
\* with "https://" or with another scheme, parse_url returns the 1st and 2nd
\* segments as user_name and repo_name, and url = "https://<domain>/<user>/<repo>".
C4_UserRepoUrlFromSegments ==
  (Returned("parse_url") /\ call.url = LocatorText(call.url)
     /\ Len(LocatorSegments(call.url)) >= 2) =>
    /\ ret.status = "ok"
    /\ ret.value.user_name = LocatorSegments(call.url)[1]
    /\ ret.value.repo_name = LocatorSegments(call.url)[2]
    /\ ret.value.url = HTTPS \o LocatorDomain(call.url) \o <<"/">>
                         \o LocatorSegments(call.url)[1] \o <<"/">>
                         \o LocatorSegments(call.url)[2]

HasUserAndRepo(url) ==
  /\ Len(LocatorSegments(url)) >= 2
  /\ LocatorSegments(url)[1] # <<>>
  /\ LocatorSegments(url)[2] # <<>>

\* C5: every descriptor parse_url returns has a non-empty user_name and a
\* non-empty repo_name, and a locator without such a pair fails with ValueError.
C5_DescriptorNeedsUserAndRepo ==
  Returned("parse_url") =>
    /\ ret.status = "ok" => (ret.value.user_name # <<>> /\ ret.value.repo_name # <<>>)
    /\ ~HasUserAndRepo(call.url) => ret.status = "ValueError"

\* C6: in every descriptor parse_url returns, commit is set exactly when a 4th path
\* segment exists and is 40 hexadecimal digits, and then commit equals branch.
C6_CommitIffFortyHex ==
  Ok("parse_url") =>
    /\ ret.value.commit # None <=>
         /\ Len(LocatorSegments(call.url)) >= 4
         /\ IsCommitHash(LocatorSegments(call.url)[4])
    /\ ret.value.commit # None => ret.value.commit = ret.value.branch

\* C7 as stated: parse_patterns raises ValueError, returning nothing, exactly when
\* some token has a character that is no ASCII letter, no ASCII digit and none of
\* - _ . / + *
C7_FailsIffNonAsciiSetChar ==
  Returned("parse_patterns") =>
    /\ ret.status = "ValueError" <=> SomeTokenOutside(call.pattern, AsciiPatternChars)
    /\ ret.status = "ValueError" => ret.value = None

\* C7 as amended: parse_patterns raises ValueError, returning nothing, exactly when
\* some token, trimmed, has a character that is not alphanumeric (letters and
\* digits outside ASCII count as alphanumeric) and none of - _ . / + *
C7_FailsIffNonAlnumSetChar ==
  Returned("parse_patterns") =>
    /\ ret.status = "ValueError" <=> SomeTokenOutside(call.pattern, PatternChars)
    /\ ret.status = "ValueError" => ret.value = None

C7_Witness ==
  /\ Returned("parse_patterns")
  /\ ret.status = "ValueError"
  /\ ret.value = None
  /\ Len(ArgTokens(call.pattern)) >= 2
  /\ \E i \in 1..Len(ArgTokens(call.pattern)) :
       /\ strip(ArgTokens(call.pattern)[i]) # <<>>
       /\ \A k \in 1..Len(strip(ArgTokens(call.pattern)[i])) :
            strip(ArgTokens(call.pattern)[i])[k] \in PatternChars

ValidPattern(p) ==
  \A k \in 1..Len(strip(p)) : strip(p)[k] \in PatternChars

\* C8: normalize_pattern is idempotent on every pattern that passes validation,
\* surrounding whitespace allowed.
C8_NormalizeIdempotent ==
  (Ok("normalize_pattern") /\ ValidPattern(call.pattern)) =>
    normalize_pattern(ret.value) = ret.value

C8_Witness ==
  /\ Ok("normalize_pattern")
  /\ ValidPattern(call.pattern)
  /\ startswith(call.pattern, <<"/", "/">>)
  /\ endswith(call.pattern, <<"/">>)
  /\ ret.value = <<"a", "/", "*">>

\* C9: the built-in default list is the same after any sequence of calls, so what a
\* call returns is what its own arguments and environment give from the built-in
\* defaults.
C9_DefaultsNeverChange ==
  /\ DEFAULT_IGNORE_PATTERNS = DEFAULT_PATTERNS
  /\ Returned("parse_query") =>
       ret = parse_query(DEFAULT_PATTERNS, call.source, call.max_file_size, call.from_web,
                         call.include_patterns, call.ignore_patterns, call.fs, Cwd,
                         call.uuid4).ret

C9_Witness ==
  /\ Ok("parse_query")
  /\ truthy(call.include_patterns)
  /\ \E j \in 1..Len(ret.value.include_patterns) :
       in_list(ret.value.include_patterns[j], DEFAULT_PATTERNS)
  /\ Len(ret.value.ignore_patterns) < Len(Accumulated)
  /\ DEFAULT_IGNORE_PATTERNS = DEFAULT_PATTERNS

\* C10: in every descriptor parse_url returns, type is the 3rd path segment whenever
\* there is one, and branch is the 4th path segment exactly when there is one.
C10_TypeAndBranchFromSegments ==
  Ok("parse_url") =>
    /\ Len(LocatorSegments(call.url)) >= 3 => ret.value.type = LocatorSegments(call.url)[3]
    /\ ret.value.branch # None <=> Len(LocatorSegments(call.url)) >= 4
    /\ Len(LocatorSegments(call.url)) >= 4 => ret.value.branch = LocatorSegments(call.url)[4]

-----------------------------------------------------------------------------
(* What remains of C4, C6 and C10 on the code: the statements below hold in every
   reachable state of SpecUrl. *)

OtherScheme == Returned("parse_url") /\ ForeignScheme(call.url)

\* C4 holds for locators with no scheme or with "https://"
C4_ExceptOtherSchemes == OtherScheme \/ C4_UserRepoUrlFromSegments

\* C6 holds for locators with no scheme or with "https://"
C6_ExceptOtherSchemes == OtherScheme \/ C6_CommitIffFortyHex

\* for such locators type and branch are the 3rd and 4th segments exactly when
\* there is a 4th segment
C10_ExceptOtherSchemes ==
  OtherScheme \/
    (Ok("parse_url") =>
       /\ ret.value.branch # None <=> Len(LocatorSegments(call.url)) >= 4
       /\ ret.value.type # None <=> Len(LocatorSegments(call.url)) >= 4
       /\ Len(LocatorSegments(call.url)) >= 4 =>
            /\ ret.value.type = LocatorSegments(call.url)[3]
            /\ ret.value.branch = LocatorSegments(call.url)[4])

====
